---- MODULE Spec2Model ----
(***************************************************************************)
(* Model of app/main.py: a FastAPI service around a process-wide           *)
(* rag_instance.  One startup task and up to MaxRequests request tasks     *)
(* share one asyncio event loop: a task keeps the loop from the moment it  *)
(* is resumed until its next await (or its return), so the synchronous     *)
(* statements between two awaits are never interleaved with another task.  *)
(***************************************************************************)
EXTENDS Integers, Sequences, FiniteSets, TLC

\* ------------------------------------------------------------------ bounds
MaxRequests == 2

\* ------------------------------------------------------ event loop / tasks
\* Value of `running` when no coroutine is executing on the event loop.
NoTask == 0
Tasks == 1..MaxRequests
\* Identifier of the startup_event coroutine.
StartupTask == MaxRequests + 1

\* ------------------------------------------------------------ input domains
\* os.getenv results: the variable is absent, present but "", or non-empty.
EnvValues == {"unset", "empty", "set"}

\* The example sentence of the insert scenario, one element per character.
Paris == << "P","a","r","i","s"," ","i","s"," ","t","h","e"," ",
            "c","a","p","i","t","a","l"," ","o","f"," ",
            "F","r","a","n","c","e","." >>
Contents == { Paris, << >>, << "h","i" >> }

\* QueryRequest.mode is Optional[str]: any string, or null.
ValidModes == {"naive", "local", "global", "hybrid"}
Modes == ValidModes \cup {"bogus", "null"}

Filenames == {"a.pdf", "b.pdf"}
Payloads == { <<1, 1>>, <<2>> }

\* ------------------------------------------------------------------- state
VARIABLES
    config,        \* module-level configuration read from the environment
    startup,       \* position of startup_event and where it raised, if it did
    rag_instance,  \* the global RAG instance ("None" or "RAGAnything")
    lightrag_core, \* startup_event's local: the LightRAG core and its stores
    dirs,          \* directories that exist under WORKING_DIR
    fs,            \* files under WORKING_DIR/uploads: name -> bytes
    running,       \* the task executing on the event loop, or NoTask
    req            \* the request tasks

vars == << config, startup, rag_instance, lightrag_core, dirs, fs, running, req >>

\* ------------------------------------------------------------ configuration
\* Python truthiness of an os.getenv result: None and "" are falsy.
Truthy(v) == v = "set"

Configs ==
    [ OPENROUTER_API_KEY : EnvValues,
      NEO4J_PASSWORD     : EnvValues,
      POSTGRES_URI       : EnvValues,
      LIGHTRAG_AVAILABLE : BOOLEAN ]

\* The settings read with os.getenv(name) and no default; the others
\* (WORKING_DIR, the model names, NEO4J_URI, NEO4J_USERNAME) have defaults and
\* are not checked by startup_event.
RequiredFields == {"OPENROUTER_API_KEY", "NEO4J_PASSWORD", "POSTGRES_URI"}

\* A validation that forgets the vector-store connection string.
ValidateSkipsPostgres(cfg) ==
    IF ~Truthy(cfg.OPENROUTER_API_KEY) THEN "OPENROUTER_API_KEY"
    ELSE IF ~Truthy(cfg.NEO4J_PASSWORD) THEN "NEO4J_PASSWORD"
    ELSE IF ~cfg.LIGHTRAG_AVAILABLE THEN "LIGHTRAG_AVAILABLE"
    ELSE "ok"

\* The four checks of startup_event under "Validate configuration", in order;
\* the name of the first that fails, or "ok".
Validate(cfg) ==
    IF ~Truthy(cfg.OPENROUTER_API_KEY) THEN "OPENROUTER_API_KEY"
    ELSE IF ~Truthy(cfg.NEO4J_PASSWORD) THEN "NEO4J_PASSWORD"
    ELSE IF ~Truthy(cfg.POSTGRES_URI) THEN "POSTGRES_URI"
    ELSE IF ~cfg.LIGHTRAG_AVAILABLE THEN "LIGHTRAG_AVAILABLE"
    ELSE "ok"

\* ---------------------------------------------------------------- requests
NoResp == [status |-> 0, detail |-> "", n |-> 0]

FreeSlot ==
    [ kind |-> "none", pc |-> "none", content |-> << >>, mode |-> "",
      filename |-> "", data |-> << >>, resp |-> NoResp,
      checked |-> "", err |-> "", aquery |-> "not_called",
      written |-> 0, closed |-> FALSE, pfStarted |-> FALSE ]

\* The server starts a handler as a new task when the loop is free; slots are
\* taken in order.  A process whose startup raised does not serve.  Handlers
\* may also run before startup_event has returned (while it has not started
\* or awaits initialize_storages): main.py itself does not order them.
CanStart(i) ==
    /\ running = NoTask
    /\ startup.pc # "crashed"
    /\ req[i].pc = "none"
    /\ \A j \in Tasks : j < i => req[j].pc # "none"

\* The task of a handler of `kind`, with the state of rag_instance it tested.
NewRequest(kind) == [ FreeSlot EXCEPT !.kind = kind, !.checked = rag_instance ]

\* A handler without the readiness check.
NotReadyNever(inst) == FALSE

\* `if not rag_instance:` at the head of insert_content, query_content and
\* upload_file.
NotReady(inst) == inst = "None"

\* raise HTTPException(status_code=503, detail="RAG system not initialized")
NotInitialized == [status |-> 503, detail |-> "RAG system not initialized", n |-> 0]

\* An except branch that reports the failure as service-unavailable.
ErrorResponseAs503(msg) == [status |-> 503, detail |-> msg, n |-> 0]

\* except Exception as e: raise HTTPException(status_code=500, detail=str(e))
ErrorResponse(msg) == [status |-> 500, detail |-> msg, n |-> 0]

\* A length that leaves out the last character.
ContentLengthOffByOne(content) == Len(content) - 1

\* len(request.content), the content_length of insert_content's result.
ContentLength(content) == Len(content)

\* f.write(content) on a handle opened at offset 0: the bytes replace the head
\* of the file and whatever lay beyond them stays.
WriteAt0(old, new) == new \o SubSeq(old, Len(new) + 1, Len(old))

\* The request finishes: the response is recorded and the loop is released.
Finish(i, r, resp) ==
    /\ req' = [req EXCEPT ![i] = [r EXCEPT !.pc = "done", !.resp = resp]]
    /\ running' = NoTask

\* The request awaits: it is suspended at `pc` and the loop is released.
Suspend(i, r, pc) ==
    /\ req' = [req EXCEPT ![i] = [r EXCEPT !.pc = pc]]
    /\ running' = NoTask

\* The request goes on synchronously: it keeps the loop.
Continue(i, r, pc) ==
    /\ req' = [req EXCEPT ![i] = [r EXCEPT !.pc = pc]]
    /\ running' = i

\* The handler raised `msg` inside its try block.
Fail(i, r, msg) == Finish(i, [r EXCEPT !.err = msg], ErrorResponse(msg))

\* ----------------------------------------------------------------- initial
Init ==
    /\ config \in Configs
    /\ startup = [pc |-> "pending", raisedAt |-> "none"]
    /\ rag_instance = "None"
    /\ lightrag_core = "unbound"
    /\ dirs = {}
    /\ fs = << >>
    /\ running = NoTask
    /\ req = [i \in Tasks |-> FreeSlot]

\* ------------------------------------------------------------ startup_event
StartupAt(pc) == startup.pc = pc /\ running = StartupTask

\* startup_event ends by `return` or by falling off its end.
StartupReturns(at) ==
    /\ startup' = [pc |-> "returned", raisedAt |-> at]
    /\ running' = NoTask

\* The except branch of startup_event: log, print the traceback, return.
StartupCaught(at) ==
    /\ StartupReturns(at)
    /\ UNCHANGED rag_instance

\* Path(WORKING_DIR).mkdir(parents=True, exist_ok=True), before the try block:
\* an OSError here leaves startup_event as an exception.
StartupMkdir ==
    /\ startup.pc = "pending"
    /\ running = NoTask
    /\ \/ /\ dirs' = dirs \cup {"working"}
          /\ startup' = [startup EXCEPT !.pc = "validate"]
          /\ running' = StartupTask
       \/ /\ startup' = [pc |-> "crashed", raisedAt |-> "mkdir"]
          /\ UNCHANGED << dirs, running >>
    /\ UNCHANGED << config, rag_instance, lightrag_core, fs, req >>

\* The four `if not ...: logger.error(...); return` checks.
StartupValidate ==
    /\ StartupAt("validate")
    /\ IF Validate(config) = "ok"
         THEN /\ startup' = [startup EXCEPT !.pc = "construct_core"]
              /\ UNCHANGED running
         ELSE StartupReturns("none")
    /\ UNCHANGED << config, rag_instance, lightrag_core, dirs, fs, req >>

\* os.environ.update(...) and lightrag_core = LightRAG(...), then the await of
\* initialize_storages() is started.
StartupConstructCore ==
    /\ StartupAt("construct_core")
    /\ \/ /\ lightrag_core' = "constructed"
          /\ startup' = [startup EXCEPT !.pc = "await_storages"]
          /\ running' = NoTask
          /\ UNCHANGED rag_instance
       \/ /\ StartupCaught("LightRAG")
          /\ UNCHANGED lightrag_core
    /\ UNCHANGED << config, dirs, fs, req >>

\* await lightrag_core.initialize_storages() completes or raises.
StartupInitializeStorages ==
    /\ startup.pc = "await_storages"
    /\ running = NoTask
    /\ \/ /\ lightrag_core' = "initialized"
          /\ startup' = [startup EXCEPT !.pc = "configure"]
          /\ running' = StartupTask
          /\ UNCHANGED rag_instance
       \/ /\ StartupCaught("initialize_storages")
          /\ UNCHANGED lightrag_core
    /\ UNCHANGED << config, dirs, fs, req >>

\* config = RAGAnythingConfig(...)
StartupConfigure ==
    /\ StartupAt("configure")
    /\ \/ /\ startup' = [startup EXCEPT !.pc = "create_rag"]
          /\ UNCHANGED << running, rag_instance >>
       \/ StartupCaught("RAGAnythingConfig")
    /\ UNCHANGED << config, lightrag_core, dirs, fs, req >>

\* A startup that binds the global before the constructor has returned.
StartupCreateRagEarlyBind ==
    /\ StartupAt("create_rag")
    /\ rag_instance' = "RAGAnything"
    /\ \/ StartupReturns("none")
       \/ StartupReturns("RAGAnything")
    /\ UNCHANGED << config, lightrag_core, dirs, fs, req >>

\* rag_instance = RAGAnything(...): the global is bound only when the
\* constructor returns; then the final log lines and the return.
StartupCreateRag ==
    /\ StartupAt("create_rag")
    /\ \/ /\ rag_instance' = "RAGAnything"
          /\ StartupReturns("none")
       \/ StartupCaught("RAGAnything")
    /\ UNCHANGED << config, lightrag_core, dirs, fs, req >>

\* A task that the event loop may resume at `pc`.
ResumeAt(i, kind, pc) ==
    /\ running = NoTask
    /\ req[i].kind = kind
    /\ req[i].pc = pc

\* A task that holds the loop at `pc`.
HoldsAt(i, pc) ==
    /\ running = i
    /\ req[i].pc = pc

\* ------------------------------------------------------------ root, health
Root(i) ==
    /\ CanStart(i)
    /\ Finish(i, NewRequest("root"), [status |-> 200, detail |-> "running", n |-> 0])
    /\ UNCHANGED << config, startup, rag_instance, lightrag_core, dirs, fs >>

HealthCheck(i) ==
    /\ CanStart(i)
    /\ Finish(i, NewRequest("health"),
              [status |-> 200,
               detail |-> IF rag_instance # "None" THEN "healthy" ELSE "initializing",
               n |-> 0])
    /\ UNCHANGED << config, startup, rag_instance, lightrag_core, dirs, fs >>

\* ----------------------------------------------------------- insert_content
\* The readiness check, then rag_instance.lightrag.ainsert(...) is awaited.
InsertStart(i) ==
    /\ CanStart(i)
    /\ \E c \in Contents :
         IF NotReady(rag_instance)
           THEN Finish(i, NewRequest("insert"), NotInitialized)
           ELSE Suspend(i, [NewRequest("insert") EXCEPT !.content = c], "await_ainsert")
    /\ UNCHANGED << config, startup, rag_instance, lightrag_core, dirs, fs >>

\* A handler that drops the global instance when the ingestion fails.
InsertResumeResets(i) ==
    /\ ResumeAt(i, "insert", "await_ainsert")
    /\ \/ /\ Finish(i, req[i], [status |-> 200, detail |-> "success",
                                n |-> ContentLength(req[i].content)])
          /\ UNCHANGED rag_instance
       \/ /\ Fail(i, req[i], "ainsert failed")
          /\ rag_instance' = "None"
    /\ UNCHANGED << config, startup, lightrag_core, dirs, fs >>

\* ainsert returns (the success body is built) or raises.
InsertResume(i) ==
    /\ ResumeAt(i, "insert", "await_ainsert")
    /\ \/ Finish(i, req[i], [status |-> 200, detail |-> "success",
                             n |-> ContentLength(req[i].content)])
       \/ Fail(i, req[i], "ainsert failed")
    /\ UNCHANGED << config, startup, rag_instance, lightrag_core, dirs, fs >>

\* ------------------------------------------------------------ query_content
\* The readiness check, then QueryParam(mode=request.mode) is built (a plain
\* dataclass: no check of the mode) and aquery(...) is called with it.
QueryStart(i) ==
    /\ CanStart(i)
    /\ \E m \in Modes :
         IF NotReady(rag_instance)
           THEN Finish(i, NewRequest("query"), NotInitialized)
           ELSE Suspend(i, [NewRequest("query") EXCEPT !.mode = m, !.aquery = m],
                        "await_aquery")
    /\ UNCHANGED << config, startup, rag_instance, lightrag_core, dirs, fs >>

\* aquery raises, or returns and QueryResponse(answer=result, mode=request.mode)
\* is built: pydantic rejects a null mode (mode: str) and a result that is not
\* a string.
QueryResume(i) ==
    /\ ResumeAt(i, "query", "await_aquery")
    /\ \/ Fail(i, req[i], "aquery failed")
       \/ \E resultIsStr \in BOOLEAN :
            IF resultIsStr /\ req[i].mode # "null"
              THEN Finish(i, req[i], [status |-> 200, detail |-> req[i].mode, n |-> 0])
              ELSE Fail(i, req[i], "QueryResponse validation error")
    /\ UNCHANGED << config, startup, rag_instance, lightrag_core, dirs, fs >>

\* -------------------------------------------------------------- upload_file
\* The readiness check, then upload_dir.mkdir(parents=True, exist_ok=True) and
\* file_path = upload_dir / file.filename.
UploadStart(i) ==
    /\ CanStart(i)
    /\ \E f \in Filenames, d \in Payloads :
         LET r == [NewRequest("upload") EXCEPT !.filename = f, !.data = d] IN
         IF NotReady(rag_instance)
           THEN Finish(i, NewRequest("upload"), NotInitialized) /\ UNCHANGED dirs
           ELSE \/ Continue(i, r, "open") /\ dirs' = dirs \cup {"working", "uploads"}
                \/ Fail(i, r, "mkdir failed") /\ UNCHANGED dirs
    /\ UNCHANGED << config, startup, rag_instance, lightrag_core, fs >>

\* open(file_path, "wb"): the file is created or truncated; then the handler
\* awaits file.read() with the file open.
UploadOpen(i) ==
    /\ HoldsAt(i, "open")
    /\ \/ /\ fs' = (req[i].filename :> << >>) @@ fs
          /\ Suspend(i, req[i], "await_read")
       \/ /\ Fail(i, req[i], "open failed")
          /\ UNCHANGED fs
    /\ UNCHANGED << config, startup, rag_instance, lightrag_core, dirs >>

\* content = await file.read() returns, or raises and the with block closes
\* the file on the way out.
UploadRead(i) ==
    /\ ResumeAt(i, "upload", "await_read")
    /\ \/ Continue(i, req[i], "write")
       \/ Fail(i, [req[i] EXCEPT !.closed = TRUE], "read failed")
    /\ UNCHANGED << config, startup, rag_instance, lightrag_core, dirs, fs >>

\* The bytes written when f.write(content) raises after k bytes.
PartialWrite(i, k) ==
    /\ fs' = [fs EXCEPT ![req[i].filename] = WriteAt0(@, SubSeq(req[i].data, 1, k))]
    /\ Fail(i, [req[i] EXCEPT !.written = k, !.closed = TRUE], "write failed")

\* An upload that swallows the write error and goes on.
UploadWriteIgnoresError(i) ==
    /\ HoldsAt(i, "write")
    /\ \E k \in 0 .. Len(req[i].data) :
         /\ fs' = [fs EXCEPT ![req[i].filename] = WriteAt0(@, SubSeq(req[i].data, 1, k))]
         /\ Continue(i, [req[i] EXCEPT !.written = k], "close")
    /\ UNCHANGED << config, startup, rag_instance, lightrag_core, dirs >>

\* f.write(content): all the bytes are written, or the write raises after
\* some of them and the with block closes the file on the way out.
UploadWrite(i) ==
    /\ HoldsAt(i, "write")
    /\ \/ /\ fs' = [fs EXCEPT ![req[i].filename] = WriteAt0(@, req[i].data)]
          /\ Continue(i, [req[i] EXCEPT !.written = Len(req[i].data)], "close")
       \/ \E k \in 0 .. Len(req[i].data) - 1 : PartialWrite(i, k)
    /\ UNCHANGED << config, startup, rag_instance, lightrag_core, dirs >>

\* The with block ends: f.close(); then rag_instance.process_file(str(file_path))
\* is called and awaited.
UploadClose(i) ==
    /\ HoldsAt(i, "close")
    /\ \/ Suspend(i, [req[i] EXCEPT !.closed = TRUE, !.pfStarted = TRUE], "await_process")
       \/ Fail(i, [req[i] EXCEPT !.closed = TRUE], "close failed")
    /\ UNCHANGED << config, startup, rag_instance, lightrag_core, dirs, fs >>

\* process_file returns (the success body, with size = len(content), is built)
\* or raises.
UploadProcessFile(i) ==
    /\ ResumeAt(i, "upload", "await_process")
    /\ \/ Finish(i, req[i], [status |-> 200, detail |-> "success",
                             n |-> Len(req[i].data)])
       \/ Fail(i, req[i], "process_file failed")
    /\ UNCHANGED << config, startup, rag_instance, lightrag_core, dirs, fs >>

\* ------------------------------------------------------------ specification
\* Every step request task i can take.
TaskStep(i) ==
    \/ Root(i)
    \/ HealthCheck(i)
    \/ InsertStart(i)
    \/ InsertResume(i)
    \/ QueryStart(i)
    \/ QueryResume(i)
    \/ UploadStart(i)
    \/ UploadOpen(i)
    \/ UploadRead(i)
    \/ UploadWrite(i)
    \/ UploadClose(i)
    \/ UploadProcessFile(i)

Next ==
    \/ StartupMkdir
    \/ StartupValidate
    \/ StartupConstructCore
    \/ StartupInitializeStorages
    \/ StartupConfigure
    \/ StartupCreateRag
    \/ \E i \in Tasks : TaskStep(i)

Spec == Init /\ [][Next]_vars

\* ================================================================== claims
\* The three operations that need a ready service.
OpKinds == {"insert", "query", "upload"}

\* A task suspended at an await, which the loop may resume.
Runnable(j) ==
    req[j].pc \in {"await_ainsert", "await_aquery", "await_read", "await_process"}

\* Exactly one of the required settings is falsy, everything else is valid.
OneRequiredMissing ==
    /\ Cardinality({f \in RequiredFields : ~Truthy(config[f])}) = 1
    /\ config.LIGHTRAG_AVAILABLE

\* C1: an insert, query or upload handler that finds rag_instance unset ends
\* with the 503 'RAG system not initialized' response, and with nothing else.
C1_NotReadyIs503 ==
    \A i \in Tasks :
        (req[i].kind \in OpKinds /\ req[i].checked = "None")
            => (req[i].pc = "done" /\ req[i].resp = NotInitialized)

\* A query answered 503 while startup_event is still awaiting
\* initialize_storages.
C1_Witness ==
    \E i \in Tasks :
        /\ req[i].kind = "query"
        /\ req[i].resp = NotInitialized
        /\ startup.pc = "await_storages"

C3_FailedStartupStaysUninitialized ==
    startup.raisedAt \in {"LightRAG", "initialize_storages", "RAGAnythingConfig", "RAGAnything"}
        => /\ startup.pc = "returned"
           /\ running # StartupTask
           /\ rag_instance = "None"
           /\ \A i \in Tasks : req[i].kind \in OpKinds => req[i].resp = NotInitialized

\* RAGAnything(...) raised after the stores were initialized, and an insert
\* was refused.
C3_Witness ==
    /\ startup.raisedAt = "RAGAnything"
    /\ lightrag_core = "initialized"
    /\ \E i \in Tasks : req[i].kind = "insert" /\ req[i].resp = NotInitialized

\* C4: once rag_instance is set no step unsets or rebinds it, and the only
\* steps that write it are steps of startup_event.
C4_ReadinessMonotone ==
    [][ /\ (rag_instance # "None" => rag_instance' = rag_instance)
        /\ (rag_instance' # rag_instance => running = StartupTask) ]_vars

\* A ready service on which one request failed with 500 while another is
\* still in flight.
C4_Witness ==
    /\ rag_instance = "RAGAnything"
    /\ \E i, j \in Tasks :
         /\ i # j
         /\ req[i].resp.status = 500
         /\ Runnable(j)

\* C5: a query on a ready service whose mode is outside the four-value
\* enumeration never reaches aquery.
C5_InvalidModeNeverReachesAquery ==
    \A i \in Tasks :
        (req[i].kind = "query" /\ req[i].checked # "None" /\ req[i].mode \notin ValidModes)
            => req[i].aquery = "not_called"

\* C6: on a ready service, every error raised in a handler ends the request
\* with status 500 and the error's message as detail; a request that passed
\* the readiness check ends with 200 or 500, never 503.
C6_FailuresBecome500 ==
    \A i \in Tasks :
        /\ req[i].err # "" =>
             /\ req[i].pc = "done"
             /\ req[i].resp.status = 500
             /\ req[i].resp.detail = req[i].err
        /\ (req[i].kind \in OpKinds /\ req[i].checked # "None" /\ req[i].pc = "done")
             => req[i].resp.status \in {200, 500}

\* An upload whose process_file raised and a query whose response could not
\* be built, both answered 500.
C6_Witness ==
    \E i, j \in Tasks :
        /\ req[i].err = "process_file failed" /\ req[i].resp.status = 500
        /\ req[j].err = "QueryResponse validation error" /\ req[j].resp.status = 500

\* C7 as stated: a successful insert of the Paris sentence reports
\* content_length 30.
C7_ParisLengthIs30 ==
    \A i \in Tasks :
        (req[i].kind = "insert" /\ req[i].content = Paris /\ req[i].resp.status = 200)
            => req[i].resp.n = 30

\* C7 amended: a successful insert reports the number of characters of the
\* submitted content, which is 31 for the Paris sentence.
C7_ParisLengthIs31 ==
    \A i \in Tasks :
        (req[i].kind = "insert" /\ req[i].resp.status = 200)
            => /\ req[i].resp.n = Len(req[i].content)
               /\ req[i].content = Paris => req[i].resp.n = 31

\* A successful insert of the Paris sentence.
C7_Witness ==
    \E i \in Tasks :
        req[i].kind = "insert" /\ req[i].content = Paris /\ req[i].resp.status = 200

\* C8: process_file is started only after every byte was written and the
\* file closed, and never after mkdir, open, read, write or close raised.
C8_WriteBeforeProcess ==
    \A i \in Tasks :
        /\ req[i].pfStarted =>
             /\ req[i].written = Len(req[i].data)
             /\ req[i].closed
             /\ req[i].pc \in {"await_process", "done"}
        /\ req[i].err \in {"mkdir failed", "open failed", "read failed",
                           "write failed", "close failed"}
             => ~req[i].pfStarted

\* process_file was started on a two-byte upload, and another upload's write
\* failed.
C8_Witness ==
    \E i, j \in Tasks :
        /\ req[i].pfStarted /\ Len(req[i].data) = 2
        /\ req[j].err = "write failed"

\* C9: while an upload is opening, writing or closing its file, every other
\* task that is suspended at an await can be resumed.
C9_WriteDoesNotStallLoop ==
    \A i, j \in Tasks :
        ( /\ i # j
          /\ req[i].kind = "upload"
          /\ req[i].pc \in {"open", "write", "close"}
          /\ Runnable(j) )
            => ENABLED TaskStep(j)

\* C10: while an upload awaits process_file, the file at its path holds
\* exactly the bytes of that upload.
C10_FileHoldsOwnBytes ==
    \A i \in Tasks :
        (req[i].kind = "upload" /\ req[i].pc = "await_process")
            => fs[req[i].filename] = req[i].data

====
